---- MODULE Spec2Model ----
(***************************************************************************)
(* Model of the score-sheet ingestion pipeline of scoresdb                 *)
(* (src/app/parser.py, src/app/models.py).                                 *)
(*                                                                         *)
(* Representation.                                                         *)
(*  - A text made of words (a show name, a city, a classification label,   *)
(*    a file name split on "_") is the sequence of its words.              *)
(*  - A table cell is a string; a composite score cell is the sequence of  *)
(*    its lines (the text between the "\n").                                *)
(*  - A float is kept in tenths (12.5 is 125), a date(y, m, d) as the      *)
(*    number y*10000 + m*100 + d, which orders as the dates do.            *)
(*  - An operation that can raise returns a record with raised = TRUE and  *)
(*    the name of the exception.                                           *)
(*  - The database is a record of tables, each a set of rows; an id is     *)
(*    assigned as max(id) + 1 (SQLite INTEGER PRIMARY KEY).                *)
(***************************************************************************)
EXTENDS Integers, Sequences, FiniteSets, TLC

VARIABLES committed, working, ndocs, last, prev, log, pc, arg, res

vars == <<committed, working, ndocs, last, prev, log, pc, arg, res>>

(***************************************************************************)
(* Python values                                                           *)
(***************************************************************************)
\* None where a text (sequence of words) is expected
None == <<"None">>

\* a missing cell of a DataFrame (None / NaN)
NaN == "NaN"

\* None where a date is expected
NoDate == 0

\* None where a block number is expected
NoBlock == -1

Raise(e) == [raised |-> TRUE, exc |-> e]

Max(S) == CHOOSE x \in S : \A y \in S : y <= x

Range(s) == {s[i] : i \in DOMAIN s}

(***************************************************************************)
(* 4) Table Normalizer: clean_table                                        *)
(***************************************************************************)
\* fillna(""): a missing header cell becomes the empty string
FillNa(c) == IF c = NaN THEN "" ELSE c

\* (h1 + " " + h2).strip(), for header cells that carry no outer blanks
Merged(h1, h2) ==
  IF h1 = "" THEN h2
  ELSE IF h2 = "" THEN h1
  ELSE h1 \o " " \o h2

RECURSIVE DedupeFrom(_, _, _, _)
\* the loop of lines 170-178 from position i on: counts is the dict, out the
\* list unique_cols built so far
DedupeFrom(merged, i, counts, out) ==
  IF i > Len(merged) THEN out
  ELSE LET name == IF merged[i] = "" THEN "BLANK" ELSE merged[i] IN
       IF name \in DOMAIN counts
       THEN DedupeFrom(merged, i + 1,
                       [counts EXCEPT ![name] = @ + 1],
                       Append(out, name \o "_" \o ToString(counts[name] + 1)))
       ELSE DedupeFrom(merged, i + 1, (name :> 0) @@ counts, Append(out, name))

\* step 2 of clean_table: counts = {}, unique_cols = [], then the loop
Dedupe(merged) == DedupeFrom(merged, 1, <<>>, <<>>)

\* clean_table(raw_df): raw_df is the grid, a sequence of rows
clean_table(raw_df) ==
  IF Len(raw_df) < 2 THEN Raise("IndexError")
  ELSE LET header1 == [i \in DOMAIN raw_df[1] |-> FillNa(raw_df[1][i])]
           header2 == [i \in DOMAIN raw_df[2] |-> FillNa(raw_df[2][i])]
           merged  == [i \in DOMAIN header1 |-> Merged(header1[i], header2[i])]
           unique_cols == Dedupe(merged)
       IN  IF Len(unique_cols) < 2 THEN Raise("IndexError")
           ELSE [raised |-> FALSE,
                 columns |-> [i \in DOMAIN unique_cols |->
                                IF i = 1 THEN "Group"
                                ELSE IF i = 2 THEN "Home City"
                                ELSE unique_cols[i]],
                 rows |-> SubSeq(raw_df, 3, Len(raw_df))]

(***************************************************************************)
(* Words: str.lower(), str.title(), str.upper() and int() on the words the *)
(* inputs are made of                                                      *)
(***************************************************************************)
\* <<lower, title, upper>> of every word that is cased or parsed
CaseTable ==
  { <<"arcadia", "Arcadia", "ARCADIA">>, <<"pomona", "Pomona", "POMONA">>,
    <<"chino", "Chino", "CHINO">>, <<"hs", "Hs", "HS">>,
    <<"saturday", "Saturday", "SATURDAY">>, <<"sunday", "Sunday", "SUNDAY">>,
    <<"finals", "Finals", "FINALS">>, <<"ca", "Ca", "CA">>,
    <<"scores", "Scores", "SCORES">>, <<"week", "Week", "WEEK">>,
    <<"2024", "2024", "2024">>, <<"2025", "2025", "2025">>,
    <<"09", "09", "09">>, <<"13", "13", "13">>, <<"07", "07", "07">>,
    <<"10", "10", "10">>, <<"14", "14", "14">>, <<"31", "31", "31">> }

CaseOf(w) == CHOOSE t \in CaseTable : w \in {t[1], t[2], t[3]}
Lower(w) == CaseOf(w)[1]
Title(w) == CaseOf(w)[2]
Upper(w) == CaseOf(w)[3]

\* the decimal numerals of the inputs and their values
Numerals ==
  [w \in {"2024", "2025", "09", "13", "07", "10", "14", "21", "31", "1", "2",
           "3"} |->
     CASE w = "2024" -> 2024 [] w = "2025" -> 2025 [] w = "09" -> 9
       [] w = "21" -> 21 [] w = "13" -> 13 [] w = "07" -> 7 [] w = "10" -> 10 [] w = "14" -> 14
       [] w = "31" -> 31 [] w = "1" -> 1 [] w = "2" -> 2 [] w = "3" -> 3]

\* int(w): raises ValueError on a word that is not a numeral
IsNumeral(w) == w \in DOMAIN Numerals
IntOf(w) == Numerals[w]

\* datetime.date(y, m, d): the number that stands for it; ValueError when
\* the month or the day does not exist
IsLeap(y) == y % 4 = 0 /\ (y % 100 # 0 \/ y % 400 = 0)
DaysIn(y, m) ==
  IF m \in {4, 6, 9, 11} THEN 30
  ELSE IF m = 2 THEN (IF IsLeap(y) THEN 29 ELSE 28)
  ELSE 31
ValidDate(y, m, d) == y \in 1..9999 /\ m \in 1..12 /\ d \in 1..DaysIn(y, m)
MkDate(y, m, d) == y * 10000 + m * 100 + d
YearOf(dt) == dt \div 10000

(***************************************************************************)
(* 1) Classification/Block Splitter: CLASS_RE and parse_class_block        *)
(***************************************************************************)
\* [A-Za-z]+ : the alphabetic words of the header texts
AlphaWords == {"Percussion", "Scholastic", "Independent", "A", "World",
               "Block", "Winds"}

NoMatch == [matched |-> FALSE, groups |-> <<>>]

RECURSIVE AlphaRunEnd(_, _)
\* the last position of the run of alphabetic words that starts at i
AlphaRunEnd(t, i) ==
  IF i + 1 <= Len(t) /\ t[i + 1] \in AlphaWords THEN AlphaRunEnd(t, i + 1) ELSE i

\* CLASS_RE.search(t): the leftmost "Percussion (Scholastic|Independent)
\* <words>"; the pattern has ONE capturing group (the optional Block suffix
\* is a non-capturing group)
ClassReSearch(t) ==
  LET starts == {i \in 1..Len(t) :
                   /\ i + 2 <= Len(t)
                   /\ t[i] = "Percussion"
                   /\ t[i + 1] \in {"Scholastic", "Independent"}
                   /\ t[i + 2] \in AlphaWords}
  IN  IF starts = {} THEN NoMatch
      ELSE LET i == CHOOSE x \in starts : \A y \in starts : x <= y
           IN  [matched |-> TRUE,
                groups |-> <<SubSeq(t, i, AlphaRunEnd(t, i + 2))>>]

\* m.group(k): IndexError("no such group") when the pattern has no group k
HasGroup(m, k) == k \in 1..Len(m.groups)

\* lines 44-47 of parse_class_block, for the match m
SplitMatch(m) ==
  IF ~HasGroup(m, 1) THEN Raise("IndexError")
  ELSE IF ~HasGroup(m, 2) THEN Raise("IndexError")
  ELSE IF m.groups[2] = None
  THEN [raised |-> FALSE, classification |-> m.groups[1], block |-> NoBlock]
  ELSE IF ~IsNumeral(m.groups[2][1]) THEN Raise("ValueError")
  ELSE [raised |-> FALSE, classification |-> m.groups[1],
        block |-> IntOf(m.groups[2][1])]

\* lines 39-42 of parse_class_block: no match gives (None, None)
SplitIfMatched(m) ==
  IF ~m.matched
  THEN [raised |-> FALSE, classification |-> None, block |-> NoBlock]
  ELSE SplitMatch(m)

\* parse_class_block(text)
parse_class_block(text) ==
  IF text = <<>> \/ text = None
  THEN [raised |-> FALSE, classification |-> None, block |-> NoBlock]
  ELSE SplitIfMatched(ClassReSearch(text))

(***************************************************************************)
(* 2) Header Scanner: scan_pdf_header                                      *)
(*                                                                         *)
(* A page's text is given by what SHOWNAME_RE, LOC_RE and DATE_RE find in  *)
(* it (<<>> when the pattern finds nothing) and by the words CLASS_RE is   *)
(* searched in.                                                            *)
(***************************************************************************)
Months == [w \in {"September", "October"} |->
             IF w = "September" THEN 9 ELSE 10]

\* datetime.strptime(text, "%B %d, %Y").date() on <<month, day, year>>
StrptimeOk(d) ==
  /\ d[1] \in DOMAIN Months
  /\ IsNumeral(d[2]) /\ IsNumeral(d[3])
  /\ ValidDate(IntOf(d[3]), Months[d[1]], IntOf(d[2]))
Strptime(d) == MkDate(IntOf(d[3]), Months[d[1]], IntOf(d[2]))

\* lines 66-82 of scan_pdf_header for the text of the page, m being
\* CLASS_RE.search(text): a key of meta that is absent is given the value
\* .get() returns for it
ScanText(text, m) ==
  IF text.date # <<>> /\ ~StrptimeOk(text.date) THEN Raise("ValueError")
  ELSE [raised |-> FALSE,
        show_name |-> IF text.name # <<>> THEN text.name ELSE None,
        location |-> IF text.loc # <<>> THEN text.loc ELSE None,
        show_date |-> IF text.date # <<>> THEN Strptime(text.date) ELSE NoDate,
        classification_text |-> IF m.matched THEN m.groups[1] ELSE <<>>]

\* scan_pdf_header(pdf_path, page_no)
scan_pdf_header(pages, page_no) ==
  IF page_no + 1 > Len(pages) THEN Raise("IndexError")
  ELSE ScanText(pages[page_no + 1].text,
                ClassReSearch(pages[page_no + 1].text.class))

(***************************************************************************)
(* 3) Filename Identity Parser: parse_filename                             *)
(***************************************************************************)
WEEKDAYS == {"saturday", "sunday", "prelims", "semifinals", "finals"}

\* parse_filename(fn): fn is os.path.splitext(fn)[0].split("_")
parse_filename(parts) ==
  IF Len(parts) < 6 THEN Raise("ValueError")
  ELSE IF ~(IsNumeral(parts[1]) /\ IsNumeral(parts[2]) /\ IsNumeral(parts[3]))
  THEN Raise("ValueError")
  ELSE IF ~ValidDate(IntOf(parts[1]), IntOf(parts[2]), IntOf(parts[3]))
  THEN Raise("ValueError")
  ELSE LET wds == {i \in 1..Len(parts) : Lower(parts[i]) \in WEEKDAYS} IN
       IF wds = {} THEN Raise("ValueError")
       ELSE LET wd_idx == CHOOSE i \in wds : \A j \in wds : i <= j
                hostid_parts == SubSeq(parts, 4, wd_idx - 1)
                hostid == IF hostid_parts # <<>>
                             /\ Lower(hostid_parts[Len(hostid_parts)]) = "hs"
                          THEN hostid_parts
                          ELSE Append(hostid_parts, "hs")
                weekday == Title(parts[wd_idx])
                city_parts == SubSeq(parts, wd_idx + 1, Len(parts) - 1)
            IN  [raised |-> FALSE,
                 show_date |-> MkDate(IntOf(parts[1]), IntOf(parts[2]),
                                      IntOf(parts[3])),
                 hostid |-> hostid,
                 weekday |-> weekday,
                 city |-> [i \in DOMAIN city_parts |-> Title(city_parts[i])],
                 state |-> <<Upper(parts[Len(parts)])>>,
                 show_name |-> Append([i \in DOMAIN hostid |-> Title(hostid[i])],
                                      weekday)]

(***************************************************************************)
(* 4) Caption Cell Splitter: split_caption_cells                           *)
(*                                                                         *)
(* A text cell (Group, Home City, ...) is a string, NaN when missing.      *)
(* A composite cell is the sequence of its lines, <<>> when missing.       *)
(***************************************************************************)
\* the texts float() accepts among the lines of the inputs, in tenths
Decimals ==
  [w \in {"12.5", "11.0", "23.5", "20.0", "43.5", "0.0", "1", "2", "3"} |->
     CASE w = "12.5" -> 125 [] w = "11.0" -> 110 [] w = "23.5" -> 235
       [] w = "20.0" -> 200 [] w = "43.5" -> 435 [] w = "0.0" -> 0
       [] w = "1" -> 10 [] w = "2" -> 20 [] w = "3" -> 30]

IsDecimal(w) == w \in DOMAIN Decimals
FloatOf(w) == Decimals[w]

\* (c or "").split("\n")
SplitLines(c) == IF c = <<>> THEN <<"">> ELSE c

\* split_cell(c): float(p[0]), float(p[1]), float(p[2]), int(p[3])
split_cell(c) ==
  LET p == SplitLines(c) IN
  IF ~IsDecimal(p[1]) THEN Raise("ValueError")
  ELSE IF Len(p) < 2 THEN Raise("IndexError")
  ELSE IF ~IsDecimal(p[2]) THEN Raise("ValueError")
  ELSE IF Len(p) < 3 THEN Raise("IndexError")
  ELSE IF ~IsDecimal(p[3]) THEN Raise("ValueError")
  ELSE IF Len(p) < 4 THEN Raise("IndexError")
  ELSE IF ~IsNumeral(p[4]) THEN Raise("ValueError")
  ELSE [raised |-> FALSE, comp |-> FloatOf(p[1]), perf |-> FloatOf(p[2]),
        total |-> FloatOf(p[3]), place |-> IntOf(p[4])]

\* the composite columns, in the order of the loop of line 198
CompositeCaps == <<"Effect - Music", "Effect - Visual", "Music", "Visual", "SubTotal">>

\* cap.lower().replace(" ", "_").replace("-", "")
Slug(cap) ==
  CASE cap = "Effect - Music" -> "effect__music"
    [] cap = "Effect - Visual" -> "effect__visual"
    [] cap = "Music" -> "music"
    [] cap = "Visual" -> "visual"
    [] cap = "SubTotal" -> "subtotal"

\* the row as the dict of its columns (DataFrame columns of distinct names)
RowDict(columns, row) ==
  [c \in Range(columns) |-> row[CHOOSE i \in DOMAIN columns : columns[i] = c]]

\* dict d without key k
Without(d, k) == [c \in DOMAIN d \ {k} |-> d[c]]

\* one round of the loop of split_caption_cells, for the column cap of the
\* rows (dicts): the column is replaced by its four parts
SplitColumn(rows, cap) ==
  IF \E i \in DOMAIN rows : split_cell(rows[i][cap]).raised
  THEN Raise((split_cell(rows[CHOOSE i \in DOMAIN rows :
                  /\ split_cell(rows[i][cap]).raised
                  /\ \A j \in 1..(i - 1) : ~split_cell(rows[j][cap]).raised][cap])).exc)
  ELSE IF Len(rows) = 0 THEN Raise("ValueError")   \* zip(*[]) unpacks nothing
  ELSE [raised |-> FALSE,
        rows |-> [i \in DOMAIN rows |->
                    LET v == split_cell(rows[i][cap]) IN
                      (Slug(cap) \o "_comp" :> v.comp)
                      @@ (Slug(cap) \o "_perf" :> v.perf)
                      @@ (Slug(cap) \o "_total" :> v.total)
                      @@ (Slug(cap) \o "_place" :> v.place)
                      @@ Without(rows[i], cap)]]

RECURSIVE SplitFrom(_, _, _)
\* the loop of split_caption_cells from the k-th composite column on
SplitFrom(columns, rows, k) ==
  IF k > Len(CompositeCaps) THEN [raised |-> FALSE, columns |-> columns, rows |-> rows]
  ELSE LET cap == CompositeCaps[k] IN
       IF cap \notin columns THEN SplitFrom(columns, rows, k + 1)
       ELSE LET r == SplitColumn(rows, cap) IN
            IF r.raised THEN r
            ELSE SplitFrom((columns \ {cap})
                             \cup {Slug(cap) \o "_comp", Slug(cap) \o "_perf",
                                   Slug(cap) \o "_total", Slug(cap) \o "_place"},
                           r.rows, k + 1)

\* split_caption_cells(df) for the df clean_table returned: the result has
\* its columns as a set and its rows as dicts
split_caption_cells(df) ==
  SplitFrom(Range(df.columns),
            [i \in DOMAIN df.rows |-> RowDict(df.columns, df.rows[i])], 1)

(***************************************************************************)
(* Row Validator: the three filters of lines 305-311                       *)
(***************************************************************************)
\* s.strip().lower() == 'group', on the Group cells of the inputs
StripLowerIsGroup(s) == s \in {"group", "Group", "GROUP", " Group "}

\* a) must have both Group & Home City
HasGroupAndCity(row) == row["Group"] # NaN /\ row["Home City"] # NaN

\* b) drop any rogue header row
NotHeaderRow(row) == ~StripLowerIsGroup(row["Group"])

\* c) require a positive subtotal_total (always a float after the split)
PositiveTotal(row) == row["subtotal_total"] > 0

KeepRow(row) == HasGroupAndCity(row) /\ NotHeaderRow(row) /\ PositiveTotal(row)

\* the rows left by the filters; KeyError when there is no subtotal_total
FilterRows(df) ==
  IF "subtotal_total" \notin df.columns THEN Raise("KeyError")
  ELSE [raised |-> FALSE, rows |-> SelectSeq(df.rows, KeepRow)]

\* lines 303-311 on what clean_table gave: the rows the loop of line 313
\* runs over, or the exception raised on the way
RowsAfterSplit(sp) == IF sp.raised THEN Raise(sp.exc) ELSE FilterRows(sp)
RowsAfterClean(ct) ==
  IF ct.raised THEN Raise(ct.exc) ELSE RowsAfterSplit(split_caption_cells(ct))

\* lines 302-311 for one raw table
SurvivingRows(raw_df) == RowsAfterClean(clean_table(raw_df))

(***************************************************************************)
(* The database: the tables of models.py                                   *)
(***************************************************************************)
\* Base.metadata.create_all(engine) on a new database: every table empty
EmptyDb ==
  [seasons |-> {}, caption_weights |-> {}, hosts |-> {}, shows |-> {},
   classifications |-> {}, groups |-> {}, performances |-> {},
   caption_scores |-> {}]

\* the id a flushed INSERT is given: the largest id of the table plus one
NewId(rows) == IF rows = {} THEN 1 ELSE Max({r.id : r \in rows}) + 1

\* query(...).first(): the row of smallest id
First(rows) == CHOOSE r \in rows : \A q \in rows : r.id <= q.id

(***************************************************************************)
(* 5) get_or_create, for each model it is called with                      *)
(***************************************************************************)
\* get_or_create(session, model, **kw) on the table rows: matching is the
\* set of rows filter_by(**kw) selects, fresh the row model(**kw) would be
get_or_create(rows, matching, fresh) ==
  IF matching # {}
  THEN [obj |-> First(matching), rows |-> rows]
  ELSE [obj |-> fresh, rows |-> rows \cup {fresh}]

GetOrCreateSeason(db, year) ==
  LET r == get_or_create(db.seasons,
                         {x \in db.seasons : x.year = year},
                         [id |-> NewId(db.seasons), year |-> year])
  IN  [obj |-> r.obj, db |-> [db EXCEPT !.seasons = r.rows]]

GetOrCreateHost(db, name, city, state) ==
  LET r == get_or_create(db.hosts,
                         {x \in db.hosts : x.name = name /\ x.city = city
                                           /\ x.state = state},
                         [id |-> NewId(db.hosts), name |-> name, city |-> city,
                          state |-> state])
  IN  [obj |-> r.obj, db |-> [db EXCEPT !.hosts = r.rows]]

(***************************************************************************)
(* 6) ingest_pdf, step by step. Each step is an operator that is given the *)
(* results of the steps before it.                                         *)
(***************************************************************************)
\* lines 231-236: the fields the header did not give, from the fallback fb
FillFromFilename(show_name, show_date, fb) ==
  IF fb.raised THEN fb
  ELSE [raised |-> FALSE,
        show_name |-> IF show_name \in {None, <<>>} THEN fb.show_name
                      ELSE show_name,
        show_date |-> IF show_date = NoDate THEN fb.show_date ELSE show_date,
        city |-> fb.city,
        state |-> fb.state]

\* location.split(",", 1), each part stripped
SplitLocation(location) ==
  LET c == CHOOSE i \in DOMAIN location :
             location[i] = "," /\ \A j \in 1..(i - 1) : location[j] # ","
  IN  [city |-> SubSeq(location, 1, c - 1),
       state |-> SubSeq(location, c + 1, Len(location))]

\* steps 1-2 (lines 225-244): the Show identity from the header of page 0
\* and the file name
ResolveIdentity(hdr0, fn) ==
  IF hdr0.show_name \in {None, <<>>} \/ hdr0.show_date = NoDate
  THEN FillFromFilename(hdr0.show_name, hdr0.show_date, parse_filename(fn))
  ELSE IF hdr0.location \notin {None, <<>>} /\ "," \in Range(hdr0.location)
  THEN [raised |-> FALSE, show_name |-> hdr0.show_name,
        show_date |-> hdr0.show_date,
        city |-> SplitLocation(hdr0.location).city,
        state |-> SplitLocation(hdr0.location).state]
  ELSE [raised |-> FALSE, show_name |-> hdr0.show_name,
        show_date |-> hdr0.show_date, city |-> None, state |-> None]

\* show_name.rsplit(" ", 1)[0]: the name without its last word
HostName(show_name) ==
  IF Len(show_name) > 1 THEN SubSeq(show_name, 1, Len(show_name) - 1)
  ELSE show_name

\* step 5 (lines 258-263): the count of Shows of the season dated before
\* show_date, plus one
WeekNum(db, season_id, show_date) ==
  Cardinality({x \in db.shows : x.season_id = season_id /\ x.date < show_date}) + 1

\* step 6, line 266: query(Show).filter_by(pdf_name=fn).  Show (models.py,
\* lines 38-50) has no pdf_name, so filter_by raises InvalidRequestError
\* whatever the database holds
FindShow(db, fn) == Raise("InvalidRequestError")

\* ingest_pdf raised exc in step step; db is what the session's transaction
\* saw then and week the week computed, 0 when step 5 was not reached
Failed(db, exc, step, week) ==
  [raised |-> TRUE, exc |-> exc, step |-> step, db |-> db, week |-> week]

\* steps 5-6 (lines 257-266): host is what get_or_create gave; the lookup
\* of the Show raises and nothing after it runs
WithHost(host, doc, ident, season) ==
  Failed(host.db, FindShow(host.db, doc.fn).exc, "find_show",
         WeekNum(host.db, season.id, ident.show_date))

\* steps 4-6 (lines 249-266): season is what get_or_create gave
WithSeason(season, doc, ident) ==
  WithHost(GetOrCreateHost(season.db, HostName(ident.show_name), ident.city,
                           ident.state),
           doc, ident, season.obj)

\* steps 3-6 (lines 246-266): ident is the resolved identity
WithIdentity(db, doc, ident) ==
  IF ident.raised THEN Failed(db, ident.exc, "parse_filename", 0)
  ELSE WithSeason(GetOrCreateSeason(db, YearOf(ident.show_date)), doc, ident)

\* steps 2-6 (lines 225-266): hdr0 is the header of page 0
WithHeader(db, doc, hdr0) ==
  IF hdr0.raised THEN Failed(db, hdr0.exc, "scan_pdf_header", 0)
  ELSE WithIdentity(db, doc, ResolveIdentity(hdr0, doc.fn))

\* ingest_pdf(session, pdf_path): db is what the session's transaction sees
\* when it starts; the result holds what it sees when ingest_pdf raises.
\* With the Show of models.py every call raises, at line 266 at the latest
ingest_pdf(db, doc) == WithHeader(db, doc, scan_pdf_header(doc.pages, 0))

(***************************************************************************)
(* The session's transaction                                               *)
(***************************************************************************)
\* a driver that leaves the failed document's pending changes in the session
RollbackKeepsPending(persisted, seen) == seen

\* session.rollback(): the transaction's changes are dropped
Rollback(persisted, seen) == persisted

(***************************************************************************)
(* The documents of the batch                                              *)
(***************************************************************************)
\* file names, split on "_" (the extension dropped)
FnA == <<"2024", "09", "14", "arcadia", "hs", "saturday", "arcadia", "ca">>
FnB == <<"2024", "09", "07", "pomona", "sunday", "pomona", "ca">>
FnC == <<"2024", "09", "10", "chino", "hs", "finals", "chino", "ca">>
FnD == <<"2025", "09", "13", "pomona", "hs", "saturday", "pomona", "ca">>
FnShort == <<"scores">>

\* page texts
NoText == [name |-> <<>>, loc |-> <<>>, date |-> <<>>, class |-> <<>>]
DateText(day) == [NoText EXCEPT !.date = <<"September", day, "2024">>]
FullText == [name |-> <<"Chino", "HS", "Finals">>,
             loc |-> <<"Chino", ",", "CA">>,
             date |-> <<"September", "13", "2024">>,
             class |-> <<>>]
\* raw tables: two header rows, then the data rows
Header1 == <<"", NaN, "Effect -", "SubTotal">>
Header2 == <<"", "", "Music", NaN>>
Cell(comp, perf, total, place) == <<comp, perf, total, place>>
RowAlpha == <<"Alpha", "Pomona", Cell("12.5", "11.0", "23.5", "1"),
              Cell("12.5", "11.0", "23.5", "1")>>
RowAlphaFirst == <<"Alpha", "Pomona", Cell("23.5", "20.0", "43.5", "1"),
                   Cell("23.5", "20.0", "43.5", "1")>>
RowBeta == <<"Beta", "Chino", Cell("12.5", "11.0", "23.5", "2"),
             Cell("12.5", "11.0", "23.5", "2")>>
RowHeaderAgain == <<"GROUP", "Home City", Cell("0.0", "0.0", "0.0", "1"),
                    Cell("12.5", "11.0", "23.5", "3")>>
RowNoCity == <<"Beta", NaN, Cell("12.5", "11.0", "23.5", "2"),
               Cell("12.5", "11.0", "23.5", "2")>>
RowZero == <<"Beta", "Chino", Cell("0.0", "0.0", "0.0", "2"),
             Cell("0.0", "0.0", "0.0", "2")>>
RowBadCell == <<"Beta", "Chino", Cell("12.5", "11.0", "23.5", "2"),
                Cell("12.5", "11.0", "n/a", "2")>>
RowEmptyGroup == <<"", "Chino", Cell("12.5", "11.0", "23.5", "2"),
                   Cell("12.5", "11.0", "23.5", "2")>>

TableOf(rows) == <<Header1, Header2>> \o rows

\* the pages of a document of one page with the given text
PagesOf(text) == <<[text |-> text]>>

\* a header that gives the location alone
LocText == [NoText EXCEPT !.loc = <<"Pomona", ",", "CA">>]

\* the documents a round of the batch may meet
DocList ==
  << [fn |-> FnA, pages |-> PagesOf(NoText)],
     [fn |-> FnA, pages |-> PagesOf(DateText("21"))],
     [fn |-> FnB, pages |-> PagesOf(NoText)],
     [fn |-> FnC, pages |-> PagesOf(NoText)],
     [fn |-> FnD, pages |-> PagesOf(NoText)],
     [fn |-> FnShort, pages |-> PagesOf(NoText)],
     [fn |-> FnShort, pages |-> PagesOf(FullText)],
     [fn |-> FnC, pages |-> PagesOf(DateText("31"))],
     [fn |-> FnB, pages |-> PagesOf(LocText)] >>

(***************************************************************************)
(* 7) main: the batch driver, one step per document                        *)
(***************************************************************************)
\* how many documents a batch holds
MaxDocs == 3

\* one round of the loop of main (lines 361-369): ingest_pdf raises, the
\* except clause rolls the session back and prints the error line; r is the
\* outcome of ingest_pdf
IngestRolledBack(d, r) ==
  /\ pc = "batch"
  /\ ndocs < MaxDocs
  /\ r.raised
  /\ ndocs' = ndocs + 1
  /\ prev' = committed
  /\ committed' = committed
  /\ working' = Rollback(committed, r.db)
  /\ last' = [doc |-> d, raised |-> TRUE, exc |-> r.exc, step |-> r.step,
              seen |-> r.db, week |-> r.week]
  /\ log' = Append(log, [doc |-> d, exc |-> r.exc])
  /\ UNCHANGED <<pc, arg, res>>

NoRound == [doc |-> 0, raised |-> TRUE, exc |-> "", step |-> "",
            seen |-> EmptyDb, week |-> 0]

Init ==
  /\ committed = EmptyDb
  /\ working = EmptyDb
  /\ ndocs = 0
  /\ last = NoRound
  /\ prev = EmptyDb
  /\ log = <<>>
  /\ pc = "batch"
  /\ arg = <<>>
  /\ res = <<>>

Next ==
  \E d \in DOMAIN DocList : IngestRolledBack(d, ingest_pdf(working, DocList[d]))

Spec == Init /\ [][Next]_vars

(***************************************************************************)
(* The Table Normalizer on its own: clean_table on every two-row header    *)
(***************************************************************************)
\* how many columns a raw table has at most
MaxCols == 4

HeaderCells1 == {"", "A", "A_1", "Group"}
HeaderCells2 == {"", NaN, "1"}

\* the raw tables of n columns that are two header rows
HeaderGrids(n) ==
  {<<h1, h2>> : h1 \in [1..n -> HeaderCells1], h2 \in [1..n -> HeaderCells2]}

InitTable ==
  /\ committed = EmptyDb /\ working = EmptyDb /\ ndocs = 0
  /\ last = NoRound
  /\ prev = EmptyDb /\ log = <<>>
  /\ pc = "clean_table"
  /\ \E n \in 1..MaxCols : arg \in HeaderGrids(n)
  /\ res = <<>>

CleanTable ==
  /\ pc = "clean_table"
  /\ pc' = "cleaned"
  /\ res' = clean_table(arg)
  /\ UNCHANGED <<committed, working, ndocs, last, prev, log, arg>>

NextTable == CleanTable

SpecTable == InitTable /\ [][NextTable]_vars

(***************************************************************************)
(* Identity resolution on its own: steps 1-2 of ingest_pdf on every        *)
(* combination of header fields and file names                             *)
(***************************************************************************)
HeaderTexts ==
  [name : {<<>>, <<"Chino", "HS", "Finals">>},
   loc : {<<>>, <<"Chino", ",", "CA">>, <<"Pomona", ",", "CA">>},
   date : {<<>>, <<"September", "13", "2024">>, <<"September", "31", "2024">>},
   class : {<<>>}]

FileNames == {FnA, FnB, FnC, FnD, FnShort}

InitIdentity ==
  /\ committed = EmptyDb /\ working = EmptyDb /\ ndocs = 0
  /\ last = NoRound
  /\ prev = EmptyDb /\ log = <<>>
  /\ pc = "identity"
  /\ arg \in [fn : FileNames, text : HeaderTexts]
  /\ res = <<>>

\* step 1 raises: strptime rejects the date of the header
HeaderRaises(hdr0) ==
  /\ pc = "identity"
  /\ hdr0.raised
  /\ pc' = "raised"
  /\ res' = hdr0
  /\ UNCHANGED <<committed, working, ndocs, last, prev, log, arg>>

\* steps 1-2 of ingest_pdf
Resolve(hdr0) ==
  /\ pc = "identity"
  /\ ~hdr0.raised
  /\ pc' = "resolved"
  /\ res' = ResolveIdentity(hdr0, arg.fn)
  /\ UNCHANGED <<committed, working, ndocs, last, prev, log, arg>>

NextIdentity ==
  \/ HeaderRaises(scan_pdf_header(PagesOf(arg.text), 0))
  \/ Resolve(scan_pdf_header(PagesOf(arg.text), 0))

SpecIdentity == InitIdentity /\ [][NextIdentity]_vars

(***************************************************************************)
(* The classification split on its own: lines 296-298 of ingest_pdf on     *)
(* every header text made of the parts below                               *)
(***************************************************************************)
ClassTexts ==
  {pre \o <<"Percussion">> \o kind \o division \o suffix :
     pre \in {<<>>, <<"Winds", "--">>},
     kind \in {<<"Scholastic">>, <<"Independent">>, <<"Winds">>},
     division \in {<<>>, <<"A">>, <<"World">>, <<"A", "World">>},
     suffix \in {<<>>, <<"--", "Block", "2">>, <<"-", "Block", "3">>,
                 <<"Block", "2">>, <<"--", "Block">>}}

InitSplit ==
  /\ committed = EmptyDb /\ working = EmptyDb /\ ndocs = 0
  /\ last = NoRound
  /\ prev = EmptyDb /\ log = <<>>
  /\ pc = "split"
  /\ arg \in ClassTexts
  /\ res = <<>>

\* per_hdr = scan_pdf_header(...); cls_txt = per_hdr.get("classification_text",
\* ""); parse_class_block(cls_txt)
SplitPage ==
  /\ pc = "split"
  /\ pc' = "split_done"
  /\ res' = parse_class_block(
              scan_pdf_header(PagesOf([NoText EXCEPT !.class = arg]), 0)
                .classification_text)
  /\ UNCHANGED <<committed, working, ndocs, last, prev, log, arg>>

NextSplit == SplitPage

SpecSplit == InitSplit /\ [][NextSplit]_vars

(***************************************************************************)
(* The Row Validator on its own: lines 302-311 of ingest_pdf on every      *)
(* table of up to MaxRows rows                                             *)
(***************************************************************************)
\* how many data rows a raw table has at most
MaxRows == 2

TableRows == {RowAlpha, RowBeta, RowHeaderAgain, RowNoCity, RowZero,
              RowBadCell, RowEmptyGroup, RowAlphaFirst}

InitRows ==
  /\ committed = EmptyDb /\ working = EmptyDb /\ ndocs = 0
  /\ last = NoRound
  /\ prev = EmptyDb /\ log = <<>>
  /\ pc = "filter_rows"
  /\ \E n \in 0..MaxRows : \E rows \in [1..n -> TableRows] : arg = TableOf(rows)
  /\ res = <<>>

FilterTable ==
  /\ pc = "filter_rows"
  /\ pc' = "filtered"
  /\ res' = SurvivingRows(arg)
  /\ UNCHANGED <<committed, working, ndocs, last, prev, log, arg>>

NextRows == FilterTable

SpecRows == InitRows /\ [][NextRows]_vars

(***************************************************************************)
(* What the properties below speak of                                      *)
(***************************************************************************)
\* whether a round has run
Ran == last.doc # 0

(***************************************************************************)
(* C1. Per-document atomicity: once the driver has handled a document on   *)
(* which ingest_pdf raised, the persisted database is the one committed    *)
(* before that document, and the session holds nothing of the failed       *)
(* document that a later commit could persist.                             *)
(***************************************************************************)
C1_Atomicity ==
  /\ (Ran /\ last.raised) => committed = prev
  /\ working = committed

\* a document, not the first of the batch, that raised after its Season and
\* its HostLocation had been flushed, and was rolled back
C1_Witness ==
  /\ Ran /\ last.raised
  /\ ndocs >= 2
  /\ last.step = "find_show"
  /\ last.seen.seasons # prev.seasons
  /\ last.seen.hosts # prev.hosts
  /\ committed = prev

(***************************************************************************)
(* C7. Row filtering is silent: a table that holds rows to be dropped      *)
(* (Group "group" in any case, Group or home city missing or empty,        *)
(* subtotal total non-numeric or not positive) goes through lines 302-311  *)
(* as the table without those rows does: no error, and the rows a          *)
(* Performance is made for are those of the table without them.            *)
(***************************************************************************)
\* the position of the SubTotal column of a raw table, 0 when it has none
SubTotalIndex(raw_df) ==
  LET ct == clean_table(raw_df) IN
  IF ct.raised \/ "SubTotal" \notin Range(ct.columns) THEN 0
  ELSE CHOOSE i \in DOMAIN ct.columns : ct.columns[i] = "SubTotal"

\* the total of a composite cell is not a number or is not positive
BadTotal(cell) ==
  \/ Len(cell) < 3
  \/ ~IsDecimal(cell[3])
  \/ FloatOf(cell[3]) <= 0

\* the rows the claim says are dropped
MustDrop(row, k) ==
  \/ StripLowerIsGroup(row[1])
  \/ row[1] \in {NaN, ""}
  \/ row[2] \in {NaN, ""}
  \/ (k # 0 /\ BadTotal(row[k]))

\* the raw table without the rows to be dropped
WithoutDropped(raw_df) ==
  LET Keep(row) == ~MustDrop(row, SubTotalIndex(raw_df))
  IN  SubSeq(raw_df, 1, 2) \o SelectSeq(SubSeq(raw_df, 3, Len(raw_df)), Keep)

C7_FilterSilent ==
  (/\ pc = "filtered"
   /\ Len(WithoutDropped(arg)) # Len(arg)
   /\ ~SurvivingRows(WithoutDropped(arg)).raised)
  => /\ ~res.raised
     /\ res.rows = SurvivingRows(WithoutDropped(arg)).rows

(***************************************************************************)
(* C8. Classification/block split: for a page whose header holds           *)
(* "Percussion Scholastic|Independent <division>", with or without         *)
(* "-- Block N" after it, the split does not raise and yields the label    *)
(* and N, or the label and no block.                                       *)
(***************************************************************************)
\* the header texts of the recognised shape with what the split is to yield
ExpectedSplits ==
  {[text |-> pre \o <<"Percussion">> \o kind \o division \o suffix.words,
    label |-> <<"Percussion">> \o kind \o division,
    block |-> suffix.block] :
     pre \in {<<>>, <<"Winds", "--">>},
     kind \in {<<"Scholastic">>, <<"Independent">>},
     division \in {<<"A">>, <<"World">>, <<"A", "World">>},
     suffix \in {[words |-> <<>>, block |-> NoBlock],
                 [words |-> <<"--", "Block", "2">>, block |-> 2],
                 [words |-> <<"-", "Block", "3">>, block |-> 3]}}

C8_SplitYields ==
  pc = "split_done" =>
    \A e \in ExpectedSplits :
      arg = e.text => /\ ~res.raised
                      /\ res.classification = e.label
                      /\ res.block = e.block

(***************************************************************************)
(* C9. Identity resolution precedence: the name, the date and the host     *)
(* city and state of the resolved identity are the header's when the       *)
(* header gives them, and the file name's when it does not.                *)
(***************************************************************************)
C9_HeaderPrecedence ==
  (pc = "resolved" /\ ~res.raised) =>
    LET fb == parse_filename(arg.fn) IN
    /\ arg.text.name # <<>> => res.show_name = arg.text.name
    /\ arg.text.date # <<>> => res.show_date = Strptime(arg.text.date)
    /\ arg.text.loc # <<>> => /\ res.city = SplitLocation(arg.text.loc).city
                              /\ res.state = SplitLocation(arg.text.loc).state
    /\ (arg.text.name = <<>> /\ ~fb.raised) => res.show_name = fb.show_name
    /\ (arg.text.date = <<>> /\ ~fb.raised) => res.show_date = fb.show_date
    /\ (arg.text.loc = <<>> /\ ~fb.raised) => /\ res.city = fb.city
                                              /\ res.state = fb.state

(***************************************************************************)
(* C10. The Table Normalizer yields uniquely named columns: the column     *)
(* names clean_table gives a table of two header rows and at least two     *)
(* columns are pairwise distinct.                                          *)
(***************************************************************************)
C10_UniqueColumns ==
  (pc = "cleaned" /\ ~res.raised) =>
    \A i, j \in DOMAIN res.columns : res.columns[i] = res.columns[j] => i = j

====
